---- MODULE Spec2Model ----
(***************************************************************************)
(* A model of the GLB Placer extension: the two glTF utilities of          *)
(* src/src/glb-utils.ts (transformGlb, glbToGeometryData) and the panel    *)
(* handlers that call them.                                                *)
(*                                                                         *)
(* These specifications share the module's variables:                      *)
(*   SpecFlatten    one invocation of glbToGeometryData                    *)
(*   SpecTransform  one invocation of transformGlb                         *)
(*   SpecPanel      the panel: file selection and the button handlers      *)
(*   SpecPanelLive  the panel when every awaited call settles              *)
(*   SpecProposal   the panel with the AddElementToProposal component only *)
(*   SpecMatrix     the constructions of the placement transforms          *)
(*   SpecReentrant  invocations of the two utilities, interleaved at their *)
(*                  awaits                                                 *)
(***************************************************************************)
EXTENDS Integers, Sequences, FiniteSets, TLC

VARIABLES
    \* ---- glbToGeometryData (glb-utils.ts 43-102)
    gpc,            \* "start" | "loop" | "done": position in the function
    gin,            \* the GLB handed to the function (its meshes)
    gdoc,           \* the document readBinary produced
    mi,             \* index of the mesh the outer loop is at (1-based)
    pi,             \* index of the primitive the inner loop is at (1-based)
    allPositions,   \* the accumulator of line 47
    allNormals,     \* the accumulator of line 48
    gresult,        \* the GeometryData returned
    glog,           \* history: one entry per primitive the inner loop has visited
    \* ---- transformGlb (glb-utils.ts 9-37)
    tpc,            \* "start" | "loop" | "done": position in the function
    tin,            \* the GLB handed to the function (its scenes and nodes)
    targs,          \* the arguments x, y, z, scale
    tdoc,           \* the document readBinary produced, mutated by the loop
    si,             \* index of the scene the loop is at (1-based)
    tresult,        \* the GLB returned
    \* ---- the panel (app.tsx, AddElementToProposal.tsx, RenderAsMesh.tsx)
    selectedFile,   \* App: useState<File | null>
    status,         \* App: useState<Status | null>
    isBusy,         \* App: useState(false)
    elementPath,    \* AddElementToProposal: useState<string | null>
    cachedUpload,   \* AddElementToProposal: useRef<CachedUpload | null>
    renderGlbId,    \* RenderGlbTemporarily: useState<string | null>
    meshId,         \* RenderAsMesh: useState<string | null>
    handler,        \* the handler in flight, or "none"
    hpc,            \* the await the handler in flight is at
    hfile,          \* the selectedFile its closure holds
    hlocal,         \* its locals: point, z, blobId, geometryUrn
    runs,           \* handler runs started so far; ids the host gives come from it
    proposal,       \* host: the paths of the elements in the proposal
    calls,          \* history: the host and core calls of the run in flight, or of the last run
    decoded,        \* history: the files transformGlb or glbToGeometryData was called on
    handed,         \* history: what the run last handed to proposal.addElement or a render call
    uploaded,       \* history: the files uploaded and made elements of, and by which run
    limit,          \* the number of handler runs the panel is let start
    \* ---- the placement transforms (types.ts, RenderAsMesh.tsx, glb-utils.ts)
    margs,          \* the arguments x, y, z, scale
    mout,           \* what each construction returned, once it has run
    \* ---- interleaved invocations of the utilities (glb-utils.ts 9-102)
    invocations,    \* per invocation: the function, the await it is at, what the caller passed and got
    frames          \* per activation: the parameters and locals of the function body

gvars == <<gpc, gin, gdoc, mi, pi, allPositions, allNormals, gresult, glog>>
tvars == <<tpc, tin, targs, tdoc, si, tresult>>
pvars == <<selectedFile, status, isBusy, elementPath, cachedUpload, renderGlbId, meshId,
           handler, hpc, hfile, hlocal, runs, proposal, calls, decoded, handed, uploaded>>

mvars == <<margs, mout>>
rvars == <<invocations, frames>>

vars == <<gvars, tvars, pvars, mvars, rvars, limit>>

\* What an action of glbToGeometryData, of transformGlb, of the panel, of the
\* constructions of the transforms, or of the interleaved invocations leaves
\* alone.
notG == <<tvars, pvars, mvars, rvars, limit>>
notT == <<gvars, pvars, mvars, rvars, limit>>
notP == <<gvars, tvars, mvars, rvars, limit>>
notM == <<gvars, tvars, pvars, rvars, limit>>
notR == <<gvars, tvars, pvars, mvars, limit>>

\* ------------------------------------------------------------------------
\* Bounds of the model
\* ------------------------------------------------------------------------
MaxMeshes == 2      \* meshes in an input document
MaxPrims == 3       \* primitives in an input document, over all its meshes
MaxNodes == 3       \* nodes in an input document
MaxScenes == 2      \* scenes in an input document
MaxRoots == 2       \* root nodes of one scene
MaxRuns == 2        \* handler runs the panel starts
MaxUploads == 3     \* handler runs the panel starts when it has one component only
MaxInvocations == 2 \* invocations of the utilities in flight together

\* ------------------------------------------------------------------------
\* Accessors and primitives
\* ------------------------------------------------------------------------
\* primitive.getAttribute(..) / getIndices() give null ("none") or an accessor;
\* accessor.getArray() gives null ("null") or a typed array ("array").
NoAccessor == [kind |-> "none", data |-> <<>>]
NullArray == [kind |-> "null", data |-> <<>>]
Arr(s) == [kind |-> "array", data |-> s]

\* Vertex data: component c of vertex v (0-based) is 10*(v+1)+c, a normal its negative.
Pos3 == <<10, 11, 12, 20, 21, 22, 30, 31, 32>>
Nrm3 == <<-10, -11, -12, -20, -21, -22, -30, -31, -32>>
Pos4 == <<10, 11, 12, 20, 21, 22, 30, 31, 32, 40, 41, 42>>
Nrm4 == <<-10, -11, -12, -20, -21, -22, -30, -31, -32, -40, -41, -42>>
\* The positions of the triangle (0,0,0), (1,0,0), (0,1,0).
PosTri == <<0, 0, 0, 1, 0, 0, 0, 1, 0>>
\* Two triangles over four vertices, sharing vertices 1 and 2.
Quad == <<0, 1, 2, 2, 1, 3>>

Prim(p, n, i) == [position |-> p, normal |-> n, indices |-> i]

\* The primitives input documents are built from.
PrimPool ==
    { Prim(NoAccessor, Arr(Nrm3), NoAccessor),
      Prim(NullArray, Arr(Nrm4), Arr(Quad)),
      Prim(Arr(Pos4), Arr(Nrm4), Arr(Quad)),
      Prim(Arr(Pos4), NoAccessor, Arr(Quad)),
      Prim(Arr(Pos3), Arr(Nrm3), NoAccessor),
      Prim(Arr(Pos3), NoAccessor, NoAccessor),
      Prim(Arr(Pos3), Arr(Nrm3), Arr(<<>>)),
      Prim(Arr(PosTri), NoAccessor, Arr(<<0, 1, 2>>)),
      Prim(Arr(Pos3), NullArray, Arr(<<2, 0, 2, 1>>)) }

\* The ways to split n primitives over at most k meshes (a mesh may be empty):
\* the sequences of mesh sizes.
RECURSIVE MeshSizes(_, _)
MeshSizes(n, k) ==
    IF k = 0 THEN (IF n = 0 THEN {<<>>} ELSE {})
    ELSE (IF n = 0 THEN {<<>>} ELSE {})
         \cup UNION { { <<m>> \o rest : rest \in MeshSizes(n - m, k - 1) } : m \in 0..n }

RECURSIVE SumTo(_, _)
SumTo(sizes, k) == IF k = 0 THEN 0 ELSE sizes[k] + SumTo(sizes, k - 1)

\* A mesh is the list of its primitives; a document the list of its meshes.
\* prims lists the primitives of the document, sizes the number each mesh has.
MeshDoc(prims, sizes) ==
    [m \in 1..Len(sizes) |->
        [q \in 1..sizes[m] |-> prims[SumTo(sizes, m - 1) + q]]]

\* ------------------------------------------------------------------------
\* glbToGeometryData
\* ------------------------------------------------------------------------
\* Reading element i (0-based) of a typed array. The indices of the input
\* documents reference existing vertices, as glTF requires, so the read is
\* always inside the array.
At(arr, i) == arr[i + 1]

\* Math.fround on an integer: exact up to 2^24, then rounded to the float32 grid
\* (ties to even).
RECURSIVE Ulp(_, _)
Ulp(a, u) == IF a < 16777216 * u THEN u ELSE Ulp(a, 2 * u)
Fround(v) ==
    LET a == IF v < 0 THEN -v ELSE v
        u == Ulp(a, 1)
        lo == (a \div u) * u
        r == a - lo
        q == a \div u
        up == (2 * r > u) \/ (2 * r = u /\ q % 2 = 1)
        m == IF up THEN lo + u ELSE lo
    IN  IF v < 0 THEN -m ELSE m

\* new Float32Array(numbers)
Float32Array(s) == [i \in 1..Len(s) |-> Fround(s[i])]

\* A variant that reads the vertices in storage order, not through indices.
RECURSIVE IndexedTriples_NoIndirection(_, _, _)
IndexedTriples_NoIndirection(arr, indices, i) ==
    IF i > Len(indices) \/ 3 * i > Len(arr) THEN <<>>
    ELSE <<At(arr, (i - 1) * 3), At(arr, (i - 1) * 3 + 1), At(arr, (i - 1) * 3 + 2)>>
         \o IndexedTriples_NoIndirection(arr, indices, i + 1)
\* lines 65-79: one triple of arr per index, in index order.
RECURSIVE IndexedTriples(_, _, _)
IndexedTriples(arr, indices, i) ==
    IF i > Len(indices) THEN <<>>
    ELSE LET idx == indices[i]
         IN  <<At(arr, idx * 3), At(arr, idx * 3 + 1), At(arr, idx * 3 + 2)>>
             \o IndexedTriples(arr, indices, i + 1)

\* line 56 and line 62: the primitive is skipped.
SkipsPrimitive(p) == p.position.kind # "array"

\* A variant whose loop over the stored values runs from the last to the first.
PushedPositions_Backwards(p) ==
    IF p.indices.kind = "array"
    THEN IndexedTriples(p.position.data, p.indices.data, 1)
    ELSE [i \in 1..Len(p.position.data) |->
             p.position.data[Len(p.position.data) + 1 - i]]
\* lines 64-89: what one primitive appends to allPositions.
PushedPositions(p) ==
    IF p.indices.kind = "array"
    THEN IndexedTriples(p.position.data, p.indices.data, 1)
    ELSE p.position.data

\* lines 64-89: what one primitive appends to allNormals.
PushedNormals(p) ==
    IF p.normal.kind # "array" THEN <<>>
    ELSE IF p.indices.kind = "array"
         THEN IndexedTriples(p.normal.data, p.indices.data, 1)
         ELSE p.normal.data

\* A variant that puts the items in front.
Push_Front(acc, items) == items \o acc
\* Array.prototype.push (lines 67, 73, 82, 86): the items go to the end.
Push(acc, items) == acc \o items

\* A variant that pushes the stored normals before it checks the positions.
PrimitiveBody_NormalsBeforeCheck(p, acc) ==
    IF SkipsPrimitive(p)
    THEN [positions |-> acc.positions,
          normals |-> Push(acc.normals, IF p.normal.kind = "array" THEN p.normal.data ELSE <<>>)]
    ELSE [positions |-> Push(acc.positions, PushedPositions(p)),
          normals |-> Push(acc.normals, PushedNormals(p))]
\* lines 52-89: the body of the inner loop, on the two accumulators.
PrimitiveBody(p, acc) ==
    IF SkipsPrimitive(p)
    THEN acc
    ELSE [positions |-> Push(acc.positions, PushedPositions(p)),
          normals |-> Push(acc.normals, PushedNormals(p))]

\* A variant that sets the normal field always.
HasNormalField_Always(normals) == Len(normals) >= 0
\* line 97: the normal field is set when some normal was pushed.
HasNormalField(normals) == Len(normals) > 0

GeometryData(positions, normals) ==
    IF HasNormalField(normals)
    THEN [position |-> Float32Array(positions), normal |-> Float32Array(normals)]
    ELSE [position |-> Float32Array(positions)]

NoResult == [pending |-> TRUE]

\* No invocation of glbToGeometryData.
GIdle ==
    /\ gpc = "idle"
    /\ gin = <<>>
    /\ gdoc = <<>>
    /\ mi = 1
    /\ pi = 1
    /\ allPositions = <<>>
    /\ allNormals = <<>>
    /\ gresult = NoResult
    /\ glog = <<>>

GStart ==
    /\ gpc = "start"
    /\ \E n \in 0..MaxPrims :
          \E prims \in [1..n -> PrimPool], sizes \in MeshSizes(n, MaxMeshes) :
              gin = MeshDoc(prims, sizes)
    /\ gdoc = <<>>
    /\ mi = 1
    /\ pi = 1
    /\ allPositions = <<>>
    /\ allNormals = <<>>
    /\ gresult = NoResult
    /\ glog = <<>>

\* lines 44-48: readBinary, then the two empty accumulators.
GDecode ==
    /\ gpc = "start"
    /\ gpc' = "loop"
    /\ gdoc' = gin
    /\ mi' = 1
    /\ pi' = 1
    /\ allPositions' = <<>>
    /\ allNormals' = <<>>
    /\ UNCHANGED <<gin, gresult, glog>>
    /\ UNCHANGED notG

\* lines 51-90: one iteration of the inner loop, on primitive pi of mesh mi.
GPrimitive ==
    /\ gpc = "loop"
    /\ mi <= Len(gdoc)
    /\ pi <= Len(gdoc[mi])
    /\ LET p == gdoc[mi][pi]
           acc == PrimitiveBody(p, [positions |-> allPositions, normals |-> allNormals])
       IN  /\ allPositions' = acc.positions
           /\ allNormals' = acc.normals
           /\ glog' = Append(glog, [mesh |-> mi, prim |-> pi,
                                    posFrom |-> Len(allPositions),
                                    posTo |-> Len(acc.positions),
                                    nrmFrom |-> Len(allNormals),
                                    nrmTo |-> Len(acc.normals)])
    /\ pi' = pi + 1
    /\ UNCHANGED <<gpc, gin, gdoc, mi, gresult>>
    /\ UNCHANGED notG

\* line 50: the inner loop is over, the outer loop moves to the next mesh.
GNextMesh ==
    /\ gpc = "loop"
    /\ mi <= Len(gdoc)
    /\ pi > Len(gdoc[mi])
    /\ mi' = mi + 1
    /\ pi' = 1
    /\ UNCHANGED <<gpc, gin, gdoc, allPositions, allNormals, gresult, glog>>
    /\ UNCHANGED notG

\* lines 93-101: the outer loop is over, the result is built and returned.
GReturn ==
    /\ gpc = "loop"
    /\ mi > Len(gdoc)
    /\ gpc' = "done"
    /\ gresult' = GeometryData(allPositions, allNormals)
    /\ UNCHANGED <<gin, gdoc, mi, pi, allPositions, allNormals, glog>>
    /\ UNCHANGED notG


\* ------------------------------------------------------------------------
\* Documents with scenes and nodes
\* ------------------------------------------------------------------------
\* In the GLB, scenes and children name nodes by 0-based index and a node
\* names its mesh by 0-based index (-1: no mesh). In the document readBinary
\* builds, nodes are objects: handle h is the node created h-th, and 0 is no
\* mesh.
GlbNode(i, children) ==
    [name |-> "node",
     mesh |-> (i % 2) - 1,
     translation |-> <<i, 0, -i>>,
     rotation |-> IF i % 2 = 0 THEN <<0, 0, 0, 1>> ELSE <<0, 1, 0, 0>>,
     scale |-> <<i, i, 2>>,
     children |-> children]

\* The input documents: node i (1-based) is either parentless or the only
\* child of node i-1; a scene lists up to MaxRoots distinct parentless nodes
\* in any order, and two scenes may list the same node.
Parentless(n, chained) == {i \in 1..n : i = 1 \/ ~chained[i]}

Injective(f) == \A a, b \in DOMAIN f : a # b => f[a] # f[b]

RootLists(R) ==
    UNION { {f \in [1..m -> R] : Injective(f)} : m \in 0..MaxRoots }

Glb(n, chained, scenes) ==
    [nodes |-> [i \in 1..n |->
                   GlbNode(i, IF i < n /\ chained[i + 1] THEN <<i>> ELSE <<>>)],
     scenes |-> [s \in 1..Len(scenes) |->
                   [k \in 1..Len(scenes[s]) |-> scenes[s][k] - 1]]]

\* The placements: x, y, z, scale.
Placements ==
    { [x |-> 10, y |-> 5, z |-> 2, scale |-> 3],
      [x |-> -1, y |-> 4, z |-> -7, scale |-> 10] }

\* io.readBinary (line 17), on the scene graph.
ReadBinary(glb) ==
    [nodes |-> [h \in 1..Len(glb.nodes) |->
                   [name |-> glb.nodes[h].name,
                    mesh |-> glb.nodes[h].mesh + 1,
                    translation |-> glb.nodes[h].translation,
                    rotation |-> glb.nodes[h].rotation,
                    scale |-> glb.nodes[h].scale,
                    children |-> [k \in 1..Len(glb.nodes[h].children) |->
                                     glb.nodes[h].children[k] + 1]]],
     scenes |-> [s \in 1..Len(glb.scenes) |->
                   [k \in 1..Len(glb.scenes[s]) |-> glb.scenes[s][k] + 1]]]

\* io.writeBinary (line 35), on the scene graph: nodes are written in the
\* order they were created.
WriteBinary(doc) ==
    [nodes |-> [i \in 1..Len(doc.nodes) |->
                   [name |-> doc.nodes[i].name,
                    mesh |-> doc.nodes[i].mesh - 1,
                    translation |-> doc.nodes[i].translation,
                    rotation |-> doc.nodes[i].rotation,
                    scale |-> doc.nodes[i].scale,
                    children |-> [k \in 1..Len(doc.nodes[i].children) |->
                                     doc.nodes[i].children[k] - 1]]],
     scenes |-> [s \in 1..Len(doc.scenes) |->
                   [k \in 1..Len(doc.scenes[s]) |-> doc.scenes[s][k] - 1]]]

Without(seq, e) == SelectSeq(seq, LAMBDA v : v # e)
Has(seq, e) == \E k \in 1..Len(seq) : seq[k] = e

\* doc.createNode(name) (line 23): a node with the default transform, no
\* mesh, no children and no parent; its handle is Len(nodes) of the result.
CreateNode(doc, name) ==
    [doc EXCEPT !.nodes = Append(@, [name |-> name,
                                     mesh |-> 0,
                                     translation |-> <<0, 0, 0>>,
                                     rotation |-> <<0, 0, 0, 1>>,
                                     scale |-> <<1, 1, 1>>,
                                     children |-> <<>>])]

\* node.setTranslation (line 24) and node.setScale (line 25)
SetTranslation(doc, h, t) == [doc EXCEPT !.nodes[h].translation = t]
SetScale(doc, h, v) == [doc EXCEPT !.nodes[h].scale = v]

\* scene.removeChild(child) (line 28)
SceneRemoveChild(doc, s, c) == [doc EXCEPT !.scenes[s] = Without(@, c)]

\* A node has at most one parent node: adding it elsewhere takes it from there.
DetachFromParentNode(doc, c) ==
    [doc EXCEPT !.nodes = [h \in 1..Len(@) |->
                              [@[h] EXCEPT !.children = Without(@, c)]]]

\* node.addChild(child) (line 29): the child leaves its parent node and every
\* scene that lists it, and becomes the last child of the node.
NodeAddChild(doc, parent, c) ==
    LET d == DetachFromParentNode(doc, c)
    IN  [d EXCEPT !.scenes = [s \in 1..Len(@) |-> Without(@[s], c)],
                  !.nodes[parent].children = Append(@, c)]

\* scene.addChild(node) (line 32): the node leaves its parent node and
\* becomes the last root of the scene.
SceneAddChild(doc, s, n) ==
    LET d == DetachFromParentNode(doc, n)
    IN  [d EXCEPT !.scenes[s] = IF Has(@, n) THEN @ ELSE Append(@, n)]

\* ------------------------------------------------------------------------
\* transformGlb
\* ------------------------------------------------------------------------
\* A variant without the change of axes.
WrapperTranslation_NoSwap(x, y, z) == <<x, y, z>>
\* line 24: the wrapper's translation, from Z-up to Y-up.
WrapperTranslation(x, y, z) == <<x, z, -y>>

\* line 25: the wrapper's scale.
WrapperScale(scale) == <<scale, scale, scale>>

\* A variant that wraps every scene.
SkipsScene_Never(children) == FALSE
\* line 21: a scene without roots is left alone.
SkipsScene(children) == Len(children) = 0

\* A variant that also gives every moved root the wrapper's translation.
RECURSIVE Reparent_Flatten(_, _, _, _, _)
Reparent_Flatten(doc, s, wrapper, children, i) ==
    IF i > Len(children) THEN doc
    ELSE Reparent_Flatten(
             SetTranslation(
                 NodeAddChild(SceneRemoveChild(doc, s, children[i]), wrapper, children[i]),
                 children[i], doc.nodes[wrapper].translation),
             s, wrapper, children, i + 1)
\* lines 27-30: every root of the scene, in order, moves under the wrapper.
RECURSIVE Reparent(_, _, _, _, _)
Reparent(doc, s, wrapper, children, i) ==
    IF i > Len(children) THEN doc
    ELSE Reparent(NodeAddChild(SceneRemoveChild(doc, s, children[i]), wrapper, children[i]),
                  s, wrapper, children, i + 1)

\* lines 20-32: the body of the loop, on scene s.
SceneBody(doc, s, a) ==
    LET children == doc.scenes[s]
    IN  IF SkipsScene(children) THEN doc
        ELSE LET d1 == CreateNode(doc, "transform_wrapper")
                 wrapper == Len(d1.nodes)
                 d2 == SetTranslation(d1, wrapper, WrapperTranslation(a.x, a.y, a.z))
                 d3 == SetScale(d2, wrapper, WrapperScale(a.scale))
                 d4 == Reparent(d3, s, wrapper, children, 1)
             IN  SceneAddChild(d4, s, wrapper)

EmptyGlb == [nodes |-> <<>>, scenes |-> <<>>]

\* No invocation of transformGlb.
TIdle ==
    /\ tpc = "idle"
    /\ tin = EmptyGlb
    /\ targs = [x |-> 0, y |-> 0, z |-> 0, scale |-> 1]
    /\ tdoc = EmptyGlb
    /\ si = 1
    /\ tresult = EmptyGlb

TStart ==
    /\ tpc = "start"
    /\ \E n \in 0..MaxNodes :
          \E chained \in [2..n -> BOOLEAN] :
              \E k \in 0..MaxScenes :
                  \E scenes \in [1..k -> RootLists(Parentless(n, chained))] :
                      tin = Glb(n, chained, scenes)
    /\ targs \in Placements
    /\ tdoc = EmptyGlb
    /\ si = 1
    /\ tresult = EmptyGlb

\* lines 16-17: readBinary.
TDecode ==
    /\ tpc = "start"
    /\ tpc' = "loop"
    /\ tdoc' = ReadBinary(tin)
    /\ si' = 1
    /\ UNCHANGED <<tin, targs, tresult>>
    /\ UNCHANGED notT

\* lines 19-33: one iteration of the loop over the scenes.
TScene ==
    /\ tpc = "loop"
    /\ si <= Len(tdoc.scenes)
    /\ tdoc' = SceneBody(tdoc, si, targs)
    /\ si' = si + 1
    /\ UNCHANGED <<tpc, tin, targs, tresult>>
    /\ UNCHANGED notT

\* lines 35-36: writeBinary, and the result is returned.
TEncode ==
    /\ tpc = "loop"
    /\ si > Len(tdoc.scenes)
    /\ tpc' = "done"
    /\ tresult' = WriteBinary(tdoc)
    /\ UNCHANGED <<tin, targs, tdoc, si>>
    /\ UNCHANGED notT

\* ------------------------------------------------------------------------
\* Invocations of transformGlb and glbToGeometryData in flight together
\* ------------------------------------------------------------------------
\* An async function runs from one await to the next without a break, and
\* other invocations run while it waits. transformGlb waits at readBinary
\* (line 17) and at writeBinary (line 35), glbToGeometryData at readBinary
\* (line 45).

\* A GLB with its scene graph and its meshes.
Buffer(glb, meshes) == [nodes |-> glb.nodes, scenes |-> glb.scenes, meshes |-> meshes]

\* The GLBs the invocations are run on.
Buffers ==
    { Buffer(Glb(1, <<>>, << <<1>> >>),
             MeshDoc(<<Prim(Arr(Pos3), Arr(Nrm3), NoAccessor)>>, <<1>>)),
      Buffer(Glb(2, [i \in 2..2 |-> FALSE], << <<2, 1>>, <<>> >>),
             MeshDoc(<<Prim(Arr(Pos4), NoAccessor, Arr(Quad)),
                       Prim(Arr(PosTri), NoAccessor, Arr(<<0, 1, 2>>))>>, <<1, 1>>)),
      Buffer(Glb(3, [i \in 2..3 |-> i = 2], << <<1>>, <<3>> >>),
             MeshDoc(<<>>, <<>>)) }

\* lines 19-33: the loop over the scenes, from scene s on.
RECURSIVE Scenes(_, _, _)
Scenes(doc, s, a) ==
    IF s > Len(doc.scenes) THEN doc
    ELSE Scenes(SceneBody(doc, s, a), s + 1, a)

\* lines 51-90: the loop over the primitives of one mesh, from primitive q on.
RECURSIVE Primitives(_, _, _)
Primitives(mesh, q, acc) ==
    IF q > Len(mesh) THEN acc
    ELSE Primitives(mesh, q + 1, PrimitiveBody(mesh[q], acc))

\* lines 50-91: the loop over the meshes, from mesh m on.
RECURSIVE Meshes(_, _, _)
Meshes(doc, m, acc) ==
    IF m > Len(doc) THEN acc
    ELSE Meshes(doc, m + 1, Primitives(doc[m], 1, acc))

NoArgs == [x |-> 0, y |-> 0, z |-> 0, scale |-> 1]
NoBuffer == Buffer(EmptyGlb, <<>>)
NoInvocation ==
    [fn |-> "none", pc |-> "idle", glbBuffer |-> NoBuffer, args |-> NoArgs,
     glb |-> EmptyGlb, geometryData |-> NoResult, interleaved |-> FALSE]
NoFrame ==
    [glbBuffer |-> NoBuffer, args |-> NoArgs, doc |-> EmptyGlb, meshes |-> <<>>,
     allPositions |-> <<>>, allNormals |-> <<>>]

\* A variant in which the parameters and locals are module-level variables.
Owner_Shared(i) == 1
\* The parameters, io, doc, allPositions and allNormals are bindings of the
\* function body (lines 10-17, 43-48): every invocation has an activation of
\* its own.
Owner(i) == i

\* Invocation i goes on to be rec; history: the invocations that wait see
\* another one run.
Runs(i, rec) ==
    invocations' =
        [j \in 1..MaxInvocations |->
            IF j = i THEN rec
            ELSE IF invocations[j].pc \in {"readBinary", "writeBinary"}
                 THEN [invocations[j] EXCEPT !.interleaved = TRUE]
                 ELSE invocations[j]]

\* No invocation.
RIdle ==
    /\ invocations = [i \in 1..MaxInvocations |-> NoInvocation]
    /\ frames = [k \in 1..MaxInvocations |-> NoFrame]

\* lines 9-17: transformGlb is called and waits for readBinary.
RCallTransformGlb ==
    \E i \in 1..MaxInvocations, b \in Buffers, a \in Placements :
        /\ invocations[i].pc = "idle"
        /\ Runs(i, [invocations[i] EXCEPT !.fn = "transformGlb", !.pc = "readBinary",
                                           !.glbBuffer = b, !.args = a])
        /\ frames' = [frames EXCEPT ![Owner(i)] =
               [NoFrame EXCEPT !.glbBuffer = b, !.args = a]]
        /\ UNCHANGED notR

\* lines 17-35: readBinary resolves, the loop runs, writeBinary is awaited.
RTransformGlbLoop ==
    \E i \in 1..MaxInvocations :
        /\ invocations[i].fn = "transformGlb"
        /\ invocations[i].pc = "readBinary"
        /\ LET f == frames[Owner(i)]
           IN  frames' = [frames EXCEPT ![Owner(i)].doc =
                              Scenes(ReadBinary(f.glbBuffer), 1, f.args)]
        /\ Runs(i, [invocations[i] EXCEPT !.pc = "writeBinary"])
        /\ UNCHANGED notR

\* lines 35-36: writeBinary resolves and the bytes are returned.
RTransformGlbReturn ==
    \E i \in 1..MaxInvocations :
        /\ invocations[i].fn = "transformGlb"
        /\ invocations[i].pc = "writeBinary"
        /\ Runs(i, [invocations[i] EXCEPT !.pc = "done",
                                           !.glb = WriteBinary(frames[Owner(i)].doc)])
        /\ UNCHANGED frames
        /\ UNCHANGED notR

\* lines 43-45: glbToGeometryData is called and waits for readBinary.
RCallGlbToGeometryData ==
    \E i \in 1..MaxInvocations, b \in Buffers :
        /\ invocations[i].pc = "idle"
        /\ Runs(i, [invocations[i] EXCEPT !.fn = "glbToGeometryData",
                                           !.pc = "readBinary", !.glbBuffer = b])
        /\ frames' = [frames EXCEPT ![Owner(i)] = [NoFrame EXCEPT !.glbBuffer = b]]
        /\ UNCHANGED notR

\* lines 45-101: readBinary resolves, the loops run, the result is returned.
RGlbToGeometryDataReturn ==
    \E i \in 1..MaxInvocations :
        /\ invocations[i].fn = "glbToGeometryData"
        /\ invocations[i].pc = "readBinary"
        /\ LET f == frames[Owner(i)]
               meshes == f.glbBuffer.meshes
               acc == Meshes(meshes, 1, [positions |-> <<>>, normals |-> <<>>])
           IN  /\ frames' = [frames EXCEPT ![Owner(i)] =
                      [@ EXCEPT !.meshes = meshes,
                                !.allPositions = acc.positions,
                                !.allNormals = acc.normals]]
               /\ Runs(i, [invocations[i] EXCEPT
                               !.pc = "done",
                               !.geometryData = GeometryData(acc.positions, acc.normals)])
        /\ UNCHANGED notR

\* ------------------------------------------------------------------------
\* The placement transforms
\* ------------------------------------------------------------------------
\* A number of the program that need not be whole is held in tenths: Num(3)
\* is 3, and 1 is 0.1.
Num(v) == 10 * v

\* A variant that lays the matrix out row by row.
createTransformMatrix_RowMajor(x, y, z, scale) ==
    <<scale, 0, 0, x, 0, scale, 0, y, 0, 0, scale, z, 0, 0, 0, Num(1)>>
\* types.ts 38-44
createTransformMatrix(x, y, z, scale) ==
    <<scale, 0, 0, 0, 0, scale, 0, 0, 0, 0, scale, 0, x, y, z, Num(1)>>

\* types.ts 42: createTransformMatrix called without a scale.
createTransformMatrixDefault(x, y, z) == createTransformMatrix(x, y, z, Num(1))

\* The createTranslationMatrix of the first version of the extension.
createTranslationMatrix(x, y, z) ==
    <<Num(1), 0, 0, 0, 0, Num(1), 0, 0, 0, 0, Num(1), 0, x, y, z, Num(1)>>

\* RenderAsMesh.tsx 46: const s = 0.1
meshScale == 1

\* A variant that turns the other way about X.
RotationMatrix_Clockwise(s, x, y, z) ==
    <<s, 0, 0, 0,
      0, 0, -s, 0,
      0, s, 0, 0,
      x, y, z, Num(1)>>
\* RenderAsMesh.tsx 47-52: the matrix of handleRenderMesh, for a scale s.
RotationMatrix(s, x, y, z) ==
    <<s, 0, 0, 0,
      0, 0, s, 0,
      0, -s, 0, 0,
      x, y, z, Num(1)>>

\* glb-utils.ts 24-25: the transform the wrapper node is given.
Wrapper(x, y, z, scale) ==
    [translation |-> WrapperTranslation(x, y, z), scale |-> WrapperScale(scale)]

NoMatrix == <<>>
NoWrapper == [translation |-> <<>>, scale |-> <<>>]
NoOutput == [transform |-> NoMatrix, byDefault |-> NoMatrix, translation |-> NoMatrix,
             rotation |-> NoMatrix, wrapper |-> NoWrapper]

\* The arguments the constructions are run on; the scales are 0.1, 1, 3, 10.
Coordinates == {Num(-7), 0, Num(10)}
Scales == {meshScale, Num(1), Num(3), Num(10)}

\* No construction.
MIdle ==
    /\ margs = [x |-> 0, y |-> 0, z |-> 0, scale |-> Num(1)]
    /\ mout = NoOutput

MStart ==
    /\ margs \in [x : Coordinates, y : Coordinates, z : Coordinates, scale : Scales]
    /\ mout = NoOutput

\* createTransformMatrix(x, y, z, scale)
MCreateTransformMatrix ==
    /\ mout.transform = NoMatrix
    /\ mout' = [mout EXCEPT !.transform =
                    createTransformMatrix(margs.x, margs.y, margs.z, margs.scale)]
    /\ UNCHANGED margs
    /\ UNCHANGED notM

\* createTransformMatrix(x, y, z)
MCreateTransformMatrixDefault ==
    /\ mout.byDefault = NoMatrix
    /\ mout' = [mout EXCEPT !.byDefault =
                    createTransformMatrixDefault(margs.x, margs.y, margs.z)]
    /\ UNCHANGED margs
    /\ UNCHANGED notM

\* createTranslationMatrix(x, y, z)
MCreateTranslationMatrix ==
    /\ mout.translation = NoMatrix
    /\ mout' = [mout EXCEPT !.translation =
                    createTranslationMatrix(margs.x, margs.y, margs.z)]
    /\ UNCHANGED margs
    /\ UNCHANGED notM

\* The matrix of handleRenderMesh, for the scale and the point of margs.
MRotationMatrix ==
    /\ mout.rotation = NoMatrix
    /\ mout' = [mout EXCEPT !.rotation =
                    RotationMatrix(margs.scale, margs.x, margs.y, margs.z)]
    /\ UNCHANGED margs
    /\ UNCHANGED notM

\* The transform of the wrapper of transformGlb, for the same arguments.
MWrapper ==
    /\ mout.wrapper = NoWrapper
    /\ mout' = [mout EXCEPT !.wrapper = Wrapper(margs.x, margs.y, margs.z, margs.scale)]
    /\ UNCHANGED margs
    /\ UNCHANGED notM

\* ------------------------------------------------------------------------
\* The panel: shared types (types.ts)
\* ------------------------------------------------------------------------
MAX_FILE_SIZE_MB == 200
MAX_FILE_SIZE_BYTES == MAX_FILE_SIZE_MB * 1024 * 1024

\* A File: its name (base and extension), its size in bytes, its contents
\* (an identity) and whether the contents are a GLB readBinary accepts.
File(base, ext, size, content, valid) ==
    [base |-> base, ext |-> ext, size |-> size, content |-> content, valid |-> valid]
NoFile == File("", "", 0, 0, FALSE)
FileName(f) == <<f.base, f.ext>>

\* The files the user can pick: two with the same name and size and different
\* contents, one of exactly the largest size allowed, one larger, one that is
\* no .glb, and a .glb readBinary rejects, of the same name as the first two
\* and another size.
FilePool ==
    { File("a", "glb", 1024, 1, TRUE),
      File("a", "glb", 1024, 2, TRUE),
      File("b", "GLB", MAX_FILE_SIZE_BYTES, 3, TRUE),
      File("c", "glb", MAX_FILE_SIZE_BYTES + 1, 4, TRUE),
      File("d", "txt", 512, 5, FALSE),
      File("a", "glb", 2048, 6, FALSE) }

\* String.prototype.toLowerCase, on the extensions of the pool.
ToLowerCase(str) == IF str = "GLB" THEN "glb" ELSE str

\* isGlbFile: file.name.toLowerCase().endsWith(".glb")
isGlbFile(file) == ToLowerCase(file.ext) = "glb"

Status(type, message) == [type |-> type, message |-> message]
NoStatus == Status("none", "")

\* What an awaited call throws: an Error with a message, or some other value.
Thrown == { [isError |-> TRUE, message |-> "Host call failed."],
            [isError |-> FALSE, message |-> ""] }
FormatError == [isError |-> TRUE, message |-> "Invalid glTF."]

\* error instanceof Error ? error.message : fallback
ErrorMessage(error, fallback) == IF error.isError THEN error.message ELSE fallback

\* What the host answers.
Points == { [x |-> 3, y |-> 4], [x |-> -2, y |-> 0] }
\* terrain.getElevationAt: the terrain's height at a point.
ElevationAt(point) == IF point.x = 3 THEN 5 ELSE 0

NoUrn == [id |-> 0, content |-> 0]
NoCache == [fileName |-> <<"", "">>, fileSize |-> -1, geometryUrn |-> NoUrn]
\* What transformGlb or glbToGeometryData returned for a file, as far as the
\* panel goes: whose contents it was made from, and the transform of the
\* wrapper transformGlb gave it (the file has a scene with roots).
CoreResult(file, wrapper) == [content |-> file.content, wrapper |-> wrapper]
NoCoreResult == [content |-> 0, wrapper |-> NoWrapper]

NoLocal == [x |-> 0, y |-> 0, z |-> 0, blobId |-> 0, geometryUrn |-> NoUrn, path |-> 0,
            transform |-> NoMatrix, result |-> NoCoreResult]

NoHanded == [call |-> "", urn |-> NoUrn, transform |-> NoMatrix, result |-> NoCoreResult,
             at |-> <<>>]

\* ------------------------------------------------------------------------
\* The panel: what the handlers share
\* ------------------------------------------------------------------------
AtAwait(h, pc) == handler = h /\ hpc = pc

Called(name) == calls' = Append(calls, name)

\* The call, and after it a note of what the host answered.
CalledAnswering(name, answer) == calls' = calls \o <<name, answer>>

\* The call hands the host a urn, a transform, or a result of the core; the
\* point the run had picked is kept with it.
Handed(name, urn, transform, result) ==
    handed' = [call |-> name, urn |-> urn, transform |-> transform, result |-> result,
               at |-> <<Num(hlocal.x), Num(hlocal.y), Num(hlocal.z)>>]

\* A variant in which the buttons stay enabled while the panel is busy.
Disabled_NotWhileBusy(busy, missing) == missing
\* disabled={isBusy || !selectedFile} (AddElementToProposal.tsx 160): a button
\* cannot be clicked while the panel is busy or what it works on is missing.
Disabled(busy, missing) == busy \/ missing

\* A handler passes its guards: setIsBusy(true), setStatus(info), and it runs
\* up to its first await.
BeginRun(h, pc, message, locals) ==
    /\ runs < limit
    /\ runs' = runs + 1
    /\ isBusy' = TRUE
    /\ status' = Status("info", message)
    /\ handler' = h
    /\ hpc' = pc
    /\ hfile' = selectedFile
    /\ hlocal' = locals
    /\ calls' = <<>>
    /\ handed' = NoHanded

\* finally { setIsBusy(false) }, and the handler returns.
EndRun ==
    /\ isBusy' = FALSE
    /\ handler' = "none"
    /\ hpc' = "idle"
    /\ hfile' = NoFile
    /\ hlocal' = NoLocal

\* A variant without the finally block.
Catch_NoFinally(error, fallback) ==
    /\ status' = Status("error", ErrorMessage(error, fallback))
    /\ isBusy' = isBusy
    /\ handler' = "none"
    /\ hpc' = "idle"
    /\ hfile' = NoFile
    /\ hlocal' = NoLocal
\* catch (error) { setStatus(error) } finally { setIsBusy(false) }
Catch(error, fallback) ==
    /\ status' = Status("error", ErrorMessage(error, fallback))
    /\ EndRun

\* A variant that throws when there is no point.
Cancelled_Throws ==
    /\ status' = Status("error", "No point selected.")
    /\ EndRun
\* if (!point) { setStatus("Placement cancelled."); return } finally { .. }
Cancelled ==
    /\ status' = Status("info", "Placement cancelled.")
    /\ EndRun

\* The handler goes on to its next await.
Goto(pc) == hpc' = pc /\ UNCHANGED <<isBusy, handler, hfile>>

\* ------------------------------------------------------------------------
\* App.onFileChange (app.tsx 14-41)
\* ------------------------------------------------------------------------
onFileChange ==
    /\ \E file \in FilePool \cup {NoFile} :
          /\ selectedFile' = file
          /\ status' = IF file = NoFile THEN NoStatus
                       ELSE IF ~isGlbFile(file)
                            THEN Status("error", "Please select a .glb file.")
                       ELSE IF file.size > MAX_FILE_SIZE_BYTES
                            THEN Status("error", "File too large. Max size is 200 MB.")
                       ELSE Status("info", "Selected")
    /\ UNCHANGED <<isBusy, elementPath, cachedUpload, renderGlbId, meshId, handler, hpc,
                   hfile, hlocal, runs, proposal, calls, decoded, handed>>
    /\ UNCHANGED uploaded
    /\ UNCHANGED notP

\* ------------------------------------------------------------------------
\* AddElementToProposal.handleUpload (AddElementToProposal.tsx 23-124)
\* ------------------------------------------------------------------------
\* lines 24-43; the button is disabled while isBusy or without a file (160).
handleUpload ==
    /\ ~Disabled(isBusy, selectedFile = NoFile)
    /\ IF ~isGlbFile(selectedFile)
       THEN /\ status' = Status("error", "Selected file must be a .glb.")
            /\ UNCHANGED <<isBusy, handler, hpc, hfile, hlocal, runs, calls, handed>>
       ELSE IF selectedFile.size > MAX_FILE_SIZE_BYTES
       THEN /\ status' = Status("error", "File too large. Max size is 200 MB.")
            /\ UNCHANGED <<isBusy, handler, hpc, hfile, hlocal, runs, calls, handed>>
       ELSE BeginRun("handleUpload", "getPoint",
                     "Click in the scene to place the element...", NoLocal)
    /\ UNCHANGED <<selectedFile, elementPath, cachedUpload, renderGlbId, meshId, proposal,
                   decoded>>
    /\ UNCHANGED uploaded
    /\ UNCHANGED notP

\* lines 46-50 and the catch of 114-123
uploadGetPoint ==
    /\ AtAwait("handleUpload", "getPoint")
    /\ \/ \E point \in Points :
             /\ Called("getPoint")
             /\ hlocal' = [hlocal EXCEPT !.x = point.x, !.y = point.y]
             /\ Goto("getElevationAt")
             /\ UNCHANGED <<status, elementPath>>
       \/ CalledAnswering("getPoint", "no point") /\ Cancelled /\ UNCHANGED elementPath
       \/ \E e \in Thrown :
             /\ Called("getPoint")
             /\ Catch(e, "Unexpected error during upload.")
             /\ elementPath' = 0
    /\ UNCHANGED <<selectedFile, cachedUpload, renderGlbId, meshId, runs, proposal, decoded>>
    /\ UNCHANGED <<handed, uploaded>>
    /\ UNCHANGED notP

\* A variant that never finds the file in the cache.
isSameFile_Never(cache, file) == FALSE
\* lines 59-62
isSameFile(cache, file) ==
    /\ cache # NoCache
    /\ cache.fileName = FileName(file)
    /\ cache.fileSize = file.size

\* lines 52-69: the elevation, the transform, and the look into the cache.
uploadGetElevationAt ==
    /\ AtAwait("handleUpload", "getElevationAt")
    /\ Called("getElevationAt")
    /\ \/ LET z == ElevationAt(hlocal)
              transform == createTransformMatrix(Num(hlocal.x), Num(hlocal.y), Num(z),
                                                 Num(10))
          IN  IF isSameFile(cachedUpload, hfile)
              THEN /\ status' = Status("info", "Using cached GLB...")
                   /\ hlocal' = [hlocal EXCEPT !.z = z,
                                               !.transform = transform,
                                               !.geometryUrn = cachedUpload.geometryUrn]
                   /\ Goto("addElement")
                   /\ UNCHANGED elementPath
              ELSE /\ status' = Status("info", "Uploading GLB to Forma...")
                   /\ hlocal' = [hlocal EXCEPT !.z = z, !.transform = transform]
                   /\ Goto("arrayBuffer")
                   /\ UNCHANGED elementPath
       \/ \E e \in Thrown :
             Catch(e, "Unexpected error during upload.") /\ elementPath' = 0
    /\ UNCHANGED <<selectedFile, cachedUpload, renderGlbId, meshId, runs, proposal, decoded>>
    /\ UNCHANGED <<handed, uploaded>>
    /\ UNCHANGED notP

\* line 69
uploadArrayBuffer ==
    /\ AtAwait("handleUpload", "arrayBuffer")
    /\ Called("arrayBuffer")
    /\ \/ Goto("uploadFile") /\ UNCHANGED <<status, elementPath, hlocal>>
       \/ \E e \in Thrown :
             Catch(e, "Unexpected error during upload.") /\ elementPath' = 0
    /\ UNCHANGED <<selectedFile, cachedUpload, renderGlbId, meshId, runs, proposal, decoded>>
    /\ UNCHANGED <<handed, uploaded>>
    /\ UNCHANGED notP

\* lines 71-76
uploadUploadFile ==
    /\ AtAwait("handleUpload", "uploadFile")
    /\ Called("uploadFile")
    /\ \/ /\ hlocal' = [hlocal EXCEPT !.blobId = runs]
          /\ status' = Status("info", "Creating element in the scene...")
          /\ Goto("createElementV2")
          /\ UNCHANGED elementPath
       \/ /\ Catch([isError |-> TRUE, message |-> "Upload did not return blobId."],
                   "Unexpected error during upload.")
          /\ elementPath' = 0
       \/ \E e \in Thrown :
             Catch(e, "Unexpected error during upload.") /\ elementPath' = 0
    /\ UNCHANGED <<selectedFile, cachedUpload, renderGlbId, meshId, runs, proposal, decoded>>
    /\ UNCHANGED <<handed, uploaded>>
    /\ UNCHANGED notP

\* A variant that sets the cache before it awaits createElementV2.
uploadCreateElementV2_CachesFirst ==
    /\ AtAwait("handleUpload", "createElementV2")
    /\ Called("createElementV2")
    /\ \/ LET urn == [id |-> runs, content |-> hfile.content]
          IN  /\ hlocal' = [hlocal EXCEPT !.geometryUrn = urn]
              /\ cachedUpload' = [fileName |-> FileName(hfile),
                                  fileSize |-> hfile.size,
                                  geometryUrn |-> urn]
              /\ uploaded' = uploaded \cup {[fileName |-> FileName(hfile),
                                              fileSize |-> hfile.size,
                                              run |-> runs]}
              /\ Goto("addElement")
              /\ UNCHANGED <<status, elementPath>>
       \/ \E e \in Thrown :
             /\ Catch(e, "Unexpected error during upload.")
             /\ elementPath' = 0
             /\ cachedUpload' = [fileName |-> FileName(hfile),
                                 fileSize |-> hfile.size,
                                 geometryUrn |-> NoUrn]
             /\ UNCHANGED uploaded
    /\ UNCHANGED <<selectedFile, renderGlbId, meshId, runs, proposal, decoded>>
    /\ UNCHANGED handed
    /\ UNCHANGED notP
\* lines 77-93: the element is created from the blob, and the cache is set.
uploadCreateElementV2 ==
    /\ AtAwait("handleUpload", "createElementV2")
    /\ Called("createElementV2")
    /\ \/ LET urn == [id |-> runs, content |-> hfile.content]
          IN  /\ hlocal' = [hlocal EXCEPT !.geometryUrn = urn]
              /\ cachedUpload' = [fileName |-> FileName(hfile),
                                  fileSize |-> hfile.size,
                                  geometryUrn |-> urn]
              /\ uploaded' = uploaded \cup {[fileName |-> FileName(hfile),
                                              fileSize |-> hfile.size,
                                              run |-> runs]}
              /\ Goto("addElement")
              /\ UNCHANGED <<status, elementPath>>
       \/ \E e \in Thrown :
             /\ Catch(e, "Unexpected error during upload.")
             /\ elementPath' = 0
             /\ UNCHANGED <<cachedUpload, uploaded>>
    /\ UNCHANGED <<selectedFile, renderGlbId, meshId, runs, proposal, decoded>>
    /\ UNCHANGED handed
    /\ UNCHANGED notP

\* lines 95-99
uploadAddElement ==
    /\ AtAwait("handleUpload", "addElement")
    /\ Called("addElement")
    /\ Handed("addElement", hlocal.geometryUrn, hlocal.transform, NoCoreResult)
    /\ \/ /\ hlocal' = [hlocal EXCEPT !.path = runs]
          /\ proposal' = proposal \cup {runs}
          /\ elementPath' = runs
          /\ Goto("render.element.add")
          /\ UNCHANGED status
       \/ \E e \in Thrown :
             /\ Catch(e, "Unexpected error during upload.")
             /\ elementPath' = 0
             /\ UNCHANGED proposal
    /\ UNCHANGED <<selectedFile, cachedUpload, renderGlbId, meshId, runs, decoded>>
    /\ UNCHANGED uploaded
    /\ UNCHANGED notP

\* lines 101-113
uploadRenderElementAdd ==
    /\ AtAwait("handleUpload", "render.element.add")
    /\ Called("render.element.add")
    /\ Handed("render.element.add", hlocal.geometryUrn, hlocal.transform, NoCoreResult)
    /\ \/ /\ status' = Status("success", "Element added at")
          /\ EndRun
          /\ UNCHANGED elementPath
       \/ \E e \in Thrown :
             Catch(e, "Unexpected error during upload.") /\ elementPath' = 0
    /\ UNCHANGED <<selectedFile, cachedUpload, renderGlbId, meshId, runs, proposal, decoded>>
    /\ UNCHANGED uploaded
    /\ UNCHANGED notP

\* ------------------------------------------------------------------------
\* AddElementToProposal.handleDelete (AddElementToProposal.tsx 126-148)
\* ------------------------------------------------------------------------
\* lines 127-133; the button is disabled while isBusy or without a path (173).
handleDelete ==
    /\ ~Disabled(isBusy, elementPath = 0)
    /\ BeginRun("handleDelete", "removeElement", "Removing element from proposal...",
                [NoLocal EXCEPT !.path = elementPath])
    /\ UNCHANGED <<selectedFile, elementPath, cachedUpload, renderGlbId, meshId, proposal,
                   decoded>>
    /\ UNCHANGED uploaded
    /\ UNCHANGED notP

\* lines 135-147
deleteRemoveElement ==
    /\ AtAwait("handleDelete", "removeElement")
    /\ Called("removeElement")
    /\ \/ /\ proposal' = proposal \ {hlocal.path}
          /\ status' = Status("success", "Element removed from proposal.")
          /\ elementPath' = 0
          /\ EndRun
       \/ \E e \in Thrown :
             /\ Catch(e, "Unexpected error during delete.")
             /\ UNCHANGED <<proposal, elementPath>>
    /\ UNCHANGED <<selectedFile, cachedUpload, renderGlbId, meshId, runs, decoded>>
    /\ UNCHANGED <<handed, uploaded>>
    /\ UNCHANGED notP

\* ------------------------------------------------------------------------
\* RenderAsMesh.handleRenderMesh (RenderAsMesh.tsx 17-71)
\* ------------------------------------------------------------------------
\* lines 18-29; the button is disabled while isBusy or without a file (103).
handleRenderMesh ==
    /\ ~Disabled(isBusy, selectedFile = NoFile)
    /\ IF ~isGlbFile(selectedFile)
       THEN /\ status' = Status("error", "Selected file must be a .glb.")
            /\ UNCHANGED <<isBusy, handler, hpc, hfile, hlocal, runs, calls, handed>>
       ELSE BeginRun("handleRenderMesh", "getPoint",
                     "Click in the scene to place the mesh...", NoLocal)
    /\ UNCHANGED <<selectedFile, elementPath, cachedUpload, renderGlbId, meshId, proposal,
                   decoded>>
    /\ UNCHANGED uploaded
    /\ UNCHANGED notP

\* lines 32-36 and the catch of 62-70
meshGetPoint ==
    /\ AtAwait("handleRenderMesh", "getPoint")
    /\ \/ \E point \in Points :
             /\ Called("getPoint")
             /\ hlocal' = [hlocal EXCEPT !.x = point.x, !.y = point.y]
             /\ Goto("getElevationAt")
             /\ UNCHANGED status
       \/ CalledAnswering("getPoint", "no point") /\ Cancelled
       \/ \E e \in Thrown :
             /\ Called("getPoint")
             /\ Catch(e, "Unexpected error during mesh render.")
    /\ UNCHANGED <<selectedFile, elementPath, cachedUpload, renderGlbId, meshId, runs,
                   proposal, decoded>>
    /\ UNCHANGED <<handed, uploaded>>
    /\ UNCHANGED notP

\* lines 38-41
meshGetElevationAt ==
    /\ AtAwait("handleRenderMesh", "getElevationAt")
    /\ Called("getElevationAt")
    /\ \/ /\ hlocal' = [hlocal EXCEPT !.z = ElevationAt(hlocal)]
          /\ status' = Status("info", "Converting GLB to mesh data...")
          /\ Goto("arrayBuffer")
       \/ \E e \in Thrown : Catch(e, "Unexpected error during mesh render.")
    /\ UNCHANGED <<selectedFile, elementPath, cachedUpload, renderGlbId, meshId, runs,
                   proposal, decoded>>
    /\ UNCHANGED <<handed, uploaded>>
    /\ UNCHANGED notP

\* line 42
meshArrayBuffer ==
    /\ AtAwait("handleRenderMesh", "arrayBuffer")
    /\ Called("arrayBuffer")
    /\ \/ Goto("glbToGeometryData") /\ UNCHANGED <<status, hlocal>>
       \/ \E e \in Thrown : Catch(e, "Unexpected error during mesh render.")
    /\ UNCHANGED <<selectedFile, elementPath, cachedUpload, renderGlbId, meshId, runs,
                   proposal, decoded>>
    /\ UNCHANGED <<handed, uploaded>>
    /\ UNCHANGED notP

\* A variant that goes on with an empty result when readBinary throws.
meshGlbToGeometryData_GoesOn ==
    /\ AtAwait("handleRenderMesh", "glbToGeometryData")
    /\ Called("glbToGeometryData")
    /\ decoded' = decoded \cup {hfile}
    /\ status' = Status("info", "Rendering mesh...")
    /\ Goto("render.addMesh")
    /\ hlocal' = [hlocal EXCEPT
                     !.result = IF hfile.valid THEN CoreResult(hfile, NoWrapper)
                                ELSE NoCoreResult,
                     !.transform = RotationMatrix(meshScale, Num(hlocal.x),
                                                  Num(hlocal.y), Num(hlocal.z))]
    /\ UNCHANGED <<selectedFile, elementPath, cachedUpload, renderGlbId, meshId, runs,
                   proposal>>
    /\ UNCHANGED <<handed, uploaded>>
    /\ UNCHANGED notP
\* lines 43-54: glbToGeometryData reads the file's bytes; readBinary throws on
\* bytes that are no GLB. Then the transform is built, with s = 0.1.
meshGlbToGeometryData ==
    /\ AtAwait("handleRenderMesh", "glbToGeometryData")
    /\ Called("glbToGeometryData")
    /\ decoded' = decoded \cup {hfile}
    /\ IF hfile.valid
       THEN /\ status' = Status("info", "Rendering mesh...")
            /\ Goto("render.addMesh")
            /\ hlocal' = [hlocal EXCEPT
                             !.result = CoreResult(hfile, NoWrapper),
                             !.transform = RotationMatrix(meshScale, Num(hlocal.x),
                                                          Num(hlocal.y), Num(hlocal.z))]
       ELSE Catch(FormatError, "Unexpected error during mesh render.")
    /\ UNCHANGED <<selectedFile, elementPath, cachedUpload, renderGlbId, meshId, runs,
                   proposal>>
    /\ UNCHANGED <<handed, uploaded>>
    /\ UNCHANGED notP

\* lines 55-61
meshAddMesh ==
    /\ AtAwait("handleRenderMesh", "render.addMesh")
    /\ Called("render.addMesh")
    /\ Handed("render.addMesh", NoUrn, hlocal.transform, hlocal.result)
    /\ \/ /\ meshId' = runs
          /\ status' = Status("success", "Mesh rendered at")
          /\ EndRun
       \/ \E e \in Thrown :
             Catch(e, "Unexpected error during mesh render.") /\ UNCHANGED meshId
    /\ UNCHANGED <<selectedFile, elementPath, cachedUpload, renderGlbId, runs, proposal,
                   decoded>>
    /\ UNCHANGED uploaded
    /\ UNCHANGED notP

\* ------------------------------------------------------------------------
\* RenderAsMesh.handleCleanupMesh (RenderAsMesh.tsx 73-90)
\* ------------------------------------------------------------------------
\* lines 74-75; the button is disabled while isBusy (110).
handleCleanupMesh ==
    /\ ~Disabled(isBusy, FALSE)
    /\ BeginRun("handleCleanupMesh", "render.cleanup", "Cleaning up all meshes...", NoLocal)
    /\ UNCHANGED <<selectedFile, elementPath, cachedUpload, renderGlbId, meshId, proposal,
                   decoded>>
    /\ UNCHANGED uploaded
    /\ UNCHANGED notP

\* lines 77-89
meshCleanup ==
    /\ AtAwait("handleCleanupMesh", "render.cleanup")
    /\ Called("render.cleanup")
    /\ \/ /\ status' = Status("success", "All meshes removed.")
          /\ meshId' = 0
          /\ EndRun
       \/ \E e \in Thrown :
             Catch(e, "Unexpected error during cleanup.") /\ UNCHANGED meshId
    /\ UNCHANGED <<selectedFile, elementPath, cachedUpload, renderGlbId, runs, proposal,
                   decoded>>
    /\ UNCHANGED <<handed, uploaded>>
    /\ UNCHANGED notP

\* ------------------------------------------------------------------------
\* RenderGlbTemporarily.handleRenderAtPoint (RenderAsMesh.tsx 142-187)
\* ------------------------------------------------------------------------
\* lines 143-154; the button is disabled while isBusy or without a file (219).
handleRenderAtPoint ==
    /\ ~Disabled(isBusy, selectedFile = NoFile)
    /\ IF ~isGlbFile(selectedFile)
       THEN /\ status' = Status("error", "Selected file must be a .glb.")
            /\ UNCHANGED <<isBusy, handler, hpc, hfile, hlocal, runs, calls, handed>>
       ELSE BeginRun("handleRenderAtPoint", "getPoint",
                     "Click in the scene to place the GLB...", NoLocal)
    /\ UNCHANGED <<selectedFile, elementPath, cachedUpload, renderGlbId, meshId, proposal,
                   decoded>>
    /\ UNCHANGED uploaded
    /\ UNCHANGED notP

\* lines 157-161 and the catch of 178-186
glbGetPoint ==
    /\ AtAwait("handleRenderAtPoint", "getPoint")
    /\ \/ \E point \in Points :
             /\ Called("getPoint")
             /\ hlocal' = [hlocal EXCEPT !.x = point.x, !.y = point.y]
             /\ Goto("getElevationAt")
             /\ UNCHANGED status
       \/ CalledAnswering("getPoint", "no point") /\ Cancelled
       \/ \E e \in Thrown :
             /\ Called("getPoint")
             /\ Catch(e, "Unexpected error during render.")
    /\ UNCHANGED <<selectedFile, elementPath, cachedUpload, renderGlbId, meshId, runs,
                   proposal, decoded>>
    /\ UNCHANGED <<handed, uploaded>>
    /\ UNCHANGED notP

\* lines 163-166
glbGetElevationAt ==
    /\ AtAwait("handleRenderAtPoint", "getElevationAt")
    /\ Called("getElevationAt")
    /\ \/ /\ hlocal' = [hlocal EXCEPT !.z = ElevationAt(hlocal)]
          /\ status' = Status("info", "Transforming GLB...")
          /\ Goto("arrayBuffer")
       \/ \E e \in Thrown : Catch(e, "Unexpected error during render.")
    /\ UNCHANGED <<selectedFile, elementPath, cachedUpload, renderGlbId, meshId, runs,
                   proposal, decoded>>
    /\ UNCHANGED <<handed, uploaded>>
    /\ UNCHANGED notP

\* line 167
glbArrayBuffer ==
    /\ AtAwait("handleRenderAtPoint", "arrayBuffer")
    /\ Called("arrayBuffer")
    /\ \/ Goto("transformGlb") /\ UNCHANGED <<status, hlocal>>
       \/ \E e \in Thrown : Catch(e, "Unexpected error during render.")
    /\ UNCHANGED <<selectedFile, elementPath, cachedUpload, renderGlbId, meshId, runs,
                   proposal, decoded>>
    /\ UNCHANGED <<handed, uploaded>>
    /\ UNCHANGED notP

\* lines 168-170: transformGlb reads the file's bytes; readBinary throws on
\* bytes that are no GLB.
glbTransformGlb ==
    /\ AtAwait("handleRenderAtPoint", "transformGlb")
    /\ Called("transformGlb")
    /\ decoded' = decoded \cup {hfile}
    /\ IF hfile.valid
       THEN /\ status' = Status("info", "Rendering GLB...")
            /\ Goto("render.glb.add")
            /\ hlocal' = [hlocal EXCEPT
                             !.result = CoreResult(hfile,
                                            Wrapper(Num(hlocal.x), Num(hlocal.y),
                                                    Num(hlocal.z), Num(10)))]
       ELSE Catch(FormatError, "Unexpected error during render.")
    /\ UNCHANGED <<selectedFile, elementPath, cachedUpload, renderGlbId, meshId, runs,
                   proposal>>
    /\ UNCHANGED <<handed, uploaded>>
    /\ UNCHANGED notP

\* lines 171-177
glbAdd ==
    /\ AtAwait("handleRenderAtPoint", "render.glb.add")
    /\ Called("render.glb.add")
    /\ Handed("render.glb.add", NoUrn, NoMatrix, hlocal.result)
    /\ \/ /\ renderGlbId' = runs
          /\ status' = Status("success", "GLB rendered at")
          /\ EndRun
       \/ \E e \in Thrown :
             Catch(e, "Unexpected error during render.") /\ UNCHANGED renderGlbId
    /\ UNCHANGED <<selectedFile, elementPath, cachedUpload, meshId, runs, proposal, decoded>>
    /\ UNCHANGED uploaded
    /\ UNCHANGED notP

\* ------------------------------------------------------------------------
\* RenderGlbTemporarily.handleCleanup (RenderAsMesh.tsx 189-206)
\* ------------------------------------------------------------------------
\* lines 190-191; the button is disabled while isBusy (226).
handleCleanup ==
    /\ ~Disabled(isBusy, FALSE)
    /\ BeginRun("handleCleanup", "render.glb.cleanup", "Cleaning up all rendered GLBs...",
                NoLocal)
    /\ UNCHANGED <<selectedFile, elementPath, cachedUpload, renderGlbId, meshId, proposal,
                   decoded>>
    /\ UNCHANGED uploaded
    /\ UNCHANGED notP

\* lines 193-205
glbCleanup ==
    /\ AtAwait("handleCleanup", "render.glb.cleanup")
    /\ Called("render.glb.cleanup")
    /\ \/ /\ status' = Status("success", "All rendered GLBs removed.")
          /\ renderGlbId' = 0
          /\ EndRun
       \/ \E e \in Thrown :
             Catch(e, "Unexpected error during cleanup.") /\ UNCHANGED renderGlbId
    /\ UNCHANGED <<selectedFile, elementPath, cachedUpload, meshId, runs, proposal, decoded>>
    /\ UNCHANGED <<handed, uploaded>>
    /\ UNCHANGED notP

\* The panel as App renders it first, and no handler in flight.
PStart ==
    /\ selectedFile = NoFile
    /\ status = NoStatus
    /\ isBusy = FALSE
    /\ elementPath = 0
    /\ cachedUpload = NoCache
    /\ renderGlbId = 0
    /\ meshId = 0
    /\ handler = "none"
    /\ hpc = "idle"
    /\ hfile = NoFile
    /\ hlocal = NoLocal
    /\ runs = 0
    /\ proposal = {}
    /\ calls = <<>>
    /\ decoded = {}
    /\ handed = NoHanded
    /\ uploaded = {}

\* ------------------------------------------------------------------------
\* The specifications
\* ------------------------------------------------------------------------
FlattenInit == GStart /\ TIdle /\ PStart /\ MIdle /\ RIdle /\ limit = MaxRuns
FlattenNext == GDecode \/ GPrimitive \/ GNextMesh \/ GReturn
SpecFlatten == FlattenInit /\ [][FlattenNext]_vars

TransformInit == TStart /\ GIdle /\ PStart /\ MIdle /\ RIdle /\ limit = MaxRuns
TransformNext == TDecode \/ TScene \/ TEncode
SpecTransform == TransformInit /\ [][TransformNext]_vars

PanelInit == PStart /\ GIdle /\ TIdle /\ MIdle /\ RIdle /\ limit = MaxRuns
PanelNext ==
    \/ onFileChange
    \/ handleUpload \/ uploadGetPoint \/ uploadGetElevationAt \/ uploadArrayBuffer
    \/ uploadUploadFile \/ uploadCreateElementV2 \/ uploadAddElement
    \/ uploadRenderElementAdd
    \/ handleDelete \/ deleteRemoveElement
    \/ handleRenderMesh \/ meshGetPoint \/ meshGetElevationAt \/ meshArrayBuffer
    \/ meshGlbToGeometryData \/ meshAddMesh
    \/ handleCleanupMesh \/ meshCleanup
    \/ handleRenderAtPoint \/ glbGetPoint \/ glbGetElevationAt \/ glbArrayBuffer
    \/ glbTransformGlb \/ glbAdd
    \/ handleCleanup \/ glbCleanup
SpecPanel == PanelInit /\ [][PanelNext]_vars

\* An awaited call of the handler in flight settles: it resolves or rejects,
\* and the handler runs on to its next await or to its end.
PanelSettles ==
    \/ uploadGetPoint \/ uploadGetElevationAt \/ uploadArrayBuffer
    \/ uploadUploadFile \/ uploadCreateElementV2 \/ uploadAddElement
    \/ uploadRenderElementAdd
    \/ deleteRemoveElement
    \/ meshGetPoint \/ meshGetElevationAt \/ meshArrayBuffer
    \/ meshGlbToGeometryData \/ meshAddMesh
    \/ meshCleanup
    \/ glbGetPoint \/ glbGetElevationAt \/ glbArrayBuffer
    \/ glbTransformGlb \/ glbAdd
    \/ glbCleanup
\* The panel, when every awaited call settles in the end.
SpecPanelLive == PanelInit /\ [][PanelNext]_vars /\ WF_vars(PanelSettles)

\* App with the AddElementToProposal component alone.
ProposalInit == PStart /\ GIdle /\ TIdle /\ MIdle /\ RIdle /\ limit = MaxUploads
ProposalNext ==
    \/ onFileChange
    \/ handleUpload \/ uploadGetPoint \/ uploadGetElevationAt \/ uploadArrayBuffer
    \/ uploadUploadFile \/ uploadCreateElementV2 \/ uploadAddElement
    \/ uploadRenderElementAdd
    \/ handleDelete \/ deleteRemoveElement
SpecProposal == ProposalInit /\ [][ProposalNext]_vars

MatrixInit == MStart /\ GIdle /\ TIdle /\ PStart /\ RIdle /\ limit = MaxRuns
MatrixNext ==
    \/ MCreateTransformMatrix \/ MCreateTransformMatrixDefault
    \/ MCreateTranslationMatrix \/ MRotationMatrix \/ MWrapper
SpecMatrix == MatrixInit /\ [][MatrixNext]_vars

ReentrantInit == RIdle /\ GIdle /\ TIdle /\ PStart /\ MIdle /\ limit = MaxRuns
ReentrantNext ==
    \/ RCallTransformGlb \/ RTransformGlbLoop \/ RTransformGlbReturn
    \/ RCallGlbToGeometryData \/ RGlbToGeometryDataReturn
SpecReentrant == ReentrantInit /\ [][ReentrantNext]_vars

\* ------------------------------------------------------------------------
\* Properties of the placement transforms
\* ------------------------------------------------------------------------
\* The product of two numbers held in tenths.
Times(a, b) == (a * b) \div Num(1)

\* The image of the point v under the column-major matrix M.
Apply(M, v) ==
    [r \in 1..3 |->
        Times(M[r], v[1]) + Times(M[4 + r], v[2]) + Times(M[8 + r], v[3]) + M[12 + r]]

\* The image of the point v under a node with translation and scale.
UnderNode(node, v) ==
    [r \in 1..3 |-> node.translation[r] + Times(node.scale[r], v[r])]

\* From the Y-up space of glTF to the Z-up space of the host.
ToZUp(g) == <<g[1], -g[3], g[2]>>

Vertices == { <<Num(1), Num(2), Num(3)>>, <<Num(-4), 0, Num(5)>>, <<0, Num(1), 0>> }

\* C12: the matrix of handleRenderMesh maps a vertex (px, py, pz) to
\* (x + s*px, y - s*pz, z + s*py), the point the wrapper of transformGlb gives
\* that vertex once the result is converted to Z-up.
C12_AxisReconciliationsAgree ==
    (mout.rotation # NoMatrix /\ mout.wrapper # NoWrapper) =>
        \A v \in Vertices :
            /\ Apply(mout.rotation, v) =
                   << margs.x + Times(margs.scale, v[1]),
                      margs.y - Times(margs.scale, v[3]),
                      margs.z + Times(margs.scale, v[2]) >>
            /\ Apply(mout.rotation, v) = ToZUp(UnderNode(mout.wrapper, v))

\* C12 witness: for the point (10, -7, 0) and the scale 0.1 both were built,
\* and both send the vertex (1, 2, 3) to (10.1, -7.3, 0.2).
C12_Witness ==
    /\ margs = [x |-> Num(10), y |-> Num(-7), z |-> 0, scale |-> meshScale]
    /\ mout.rotation # NoMatrix
    /\ mout.wrapper # NoWrapper
    /\ Apply(mout.rotation, <<Num(1), Num(2), Num(3)>>) = <<101, -73, 2>>
    /\ ToZUp(UnderNode(mout.wrapper, <<Num(1), Num(2), Num(3)>>)) = <<101, -73, 2>>

\* C13: createTransformMatrix gives 16 elements, elements 0, 5 and 10 the
\* scale, elements 12, 13, 14 x, y, z, element 15 one and the others zero; and
\* without a scale it gives the matrix of createTranslationMatrix.
C13_TransformMatrixLayout ==
    /\ mout.transform # NoMatrix =>
          /\ Len(mout.transform) = 16
          /\ \A k \in 0..15 :
                mout.transform[k + 1] =
                    CASE k \in {0, 5, 10} -> margs.scale
                      [] k = 12 -> margs.x
                      [] k = 13 -> margs.y
                      [] k = 14 -> margs.z
                      [] k = 15 -> Num(1)
                      [] OTHER -> 0
    /\ (mout.byDefault # NoMatrix /\ mout.translation # NoMatrix) =>
          mout.byDefault = mout.translation

\* C13 witness: the three matrices were built for three different coordinates
\* and the scale 3.
C13_Witness ==
    /\ margs = [x |-> Num(10), y |-> Num(-7), z |-> 0, scale |-> Num(3)]
    /\ mout.transform = <<30, 0, 0, 0, 0, 30, 0, 0, 0, 0, 30, 0, 100, -70, 0, 10>>
    /\ mout.byDefault # NoMatrix
    /\ mout.translation # NoMatrix

\* ------------------------------------------------------------------------
\* Properties of the panel
\* ------------------------------------------------------------------------
\* C3: transformGlb and glbToGeometryData are never called on a file larger
\* than MAX_FILE_SIZE_BYTES.
C3_DecodeWithinCeiling ==
    \A f \in decoded : f.size <= MAX_FILE_SIZE_BYTES

Abs(v) == IF v < 0 THEN -v ELSE v

\* The scale a matrix whose columns lie along the axes applies along each of
\* its first three columns, and its translation.
ColumnScales(M) ==
    [c \in 1..3 |-> Abs(M[4 * c - 3]) + Abs(M[4 * c - 2]) + Abs(M[4 * c - 1])]
TranslationOf(M) == <<M[13], M[14], M[15]>>

\* The scale and the host-space translation of what was handed to the host.
HandedScale ==
    IF handed.call = "render.glb.add" THEN handed.result.wrapper.scale
    ELSE ColumnScales(handed.transform)
HandedTranslation ==
    IF handed.call = "render.glb.add" THEN ToZUp(handed.result.wrapper.translation)
    ELSE TranslationOf(handed.transform)

\* C14: whatever a placement hands to the host has scale 10 on the three axes
\* and is translated to the picked (x, y), with z the elevation there.
C14_PlacedAtScaleTen ==
    handed # NoHanded =>
        /\ HandedScale = <<Num(10), Num(10), Num(10)>>
        /\ HandedTranslation = handed.at
        /\ \E point \in Points :
              handed.at = <<Num(point.x), Num(point.y), Num(ElevationAt(point))>>

SameNameAndSize(cache, file) ==
    cache.fileName = FileName(file) /\ cache.fileSize = file.size

\* The cache was filled by a run before the one in flight.
CachedEarlier == cachedUpload # NoCache /\ cachedUpload.geometryUrn.id < runs

\* An earlier run uploaded a file of the name and size of the file of the run
\* in flight, and made an element of it.
UploadedEarlier ==
    \E u \in uploaded :
        u.run < runs /\ u.fileName = FileName(hfile) /\ u.fileSize = hfile.size

C17_AddedElementKeepsPath ==
    \A path \in proposal : elementPath = path

\* C21: when every awaited call settles, a panel that is busy is not busy any
\* more later on, however the run ends, and it is never busy without a
\* handler in flight.
C21_BusyEnds ==
    /\ isBusy ~> ~isBusy
    /\ [](handler = "none" => ~isBusy)

\* C21 witness: the second run has ended in the catch block after an awaited
\* host call rejected, and the panel is not busy.
C21_Witness ==
    /\ runs = 2
    /\ handler = "none"
    /\ ~isBusy
    /\ Has(calls, "getElevationAt")
    /\ status = Status("error", "Host call failed.")

\* C22: the panel is busy exactly while a handler is in flight, and a handler
\* starts only when the panel is not busy and no handler is in flight: no two
\* operations of the three components are in flight together.
C22_OneOperationInFlight ==
    /\ [](isBusy <=> handler # "none")
    /\ [][runs' # runs => (~isBusy /\ handler = "none" /\ isBusy' /\ handler' # "none")]_vars

\* C22 witness: after a first run has ended, a handler of another component
\* is in flight and the panel is busy.
C22_Witness ==
    /\ runs = 2
    /\ isBusy
    /\ handler = "handleCleanupMesh"
    /\ cachedUpload # NoCache

\* C23: the URN a handleUpload run hands to proposal.addElement is the URN of
\* an element made from the contents of the file selected for the run.
C23_UrnOfSelectedContents ==
    [][(handler = "handleUpload" /\ hpc = "addElement" /\ calls' # calls) =>
           /\ handed'.call = "addElement"
           /\ handed'.urn.content = hfile.content]_vars

\* C24: the cache changes only in the step in which createElementV2 resolves,
\* after uploadFile gave a blobId, and holds the URN of that step; a run that
\* ends at arrayBuffer, uploadFile or createElementV2 leaves the cache as it
\* was, has not called proposal.addElement and ends with an error; and
\* proposal.addElement is called with a URN that is in the cache, with
\* render.element.add right after it and not otherwise.
C24_CacheWrittenAfterUrn ==
    /\ [][cachedUpload' # cachedUpload =>
             /\ handler = "handleUpload"
             /\ hpc = "createElementV2"
             /\ hlocal.blobId # 0
             /\ calls' = <<"getPoint", "getElevationAt", "arrayBuffer", "uploadFile",
                           "createElementV2">>
             /\ cachedUpload'.geometryUrn # NoUrn
             /\ cachedUpload'.geometryUrn = hlocal'.geometryUrn]_vars
    /\ [][(/\ handler = "handleUpload"
           /\ hpc \in {"arrayBuffer", "uploadFile", "createElementV2"}
           /\ handler' = "none") =>
             /\ cachedUpload' = cachedUpload
             /\ ~Has(calls', "addElement")
             /\ ~Has(calls', "render.element.add")
             /\ status'.type = "error"]_vars
    /\ [](Has(calls, "addElement") =>
             /\ handed.urn # NoUrn
             /\ handed.urn = cachedUpload.geometryUrn
             /\ Has(calls, "createElementV2") <=> handed.urn.id = runs)
    /\ [](Has(calls, "render.element.add") =>
             SubSeq(calls, Len(calls) - 1, Len(calls)) = <<"addElement", "render.element.add">>)

\* C24 witness: the second run ended because uploadFile gave no blobId, and
\* the cache still holds what the first run put there.
C24_Witness ==
    /\ runs = 2
    /\ handler = "none"
    /\ status = Status("error", "Upload did not return blobId.")
    /\ calls = <<"getPoint", "getElevationAt", "arrayBuffer", "uploadFile">>
    /\ cachedUpload.geometryUrn.id = 1

\* C18: when readBinary rejects the file inside glbToGeometryData or
\* transformGlb, the run ends there: nothing is returned, no render call is
\* made, meshId and renderGlbId stay, and the status is an error.
C18_FailedDecodeEndsRun ==
    [][ (/\ handler \in {"handleRenderMesh", "handleRenderAtPoint"}
         /\ hpc \in {"glbToGeometryData", "transformGlb"}
         /\ ~hfile.valid
         /\ calls' # calls) =>
            /\ handler' = "none"
            /\ hlocal'.result = NoCoreResult
            /\ handed' = NoHanded
            /\ ~Has(calls', "render.addMesh")
            /\ ~Has(calls', "render.glb.add")
            /\ meshId' = meshId
            /\ renderGlbId' = renderGlbId
            /\ status'.type = "error"
            /\ ~isBusy' ]_vars

\* C18 witness: after a mesh had been rendered, a run of handleRenderMesh on a
\* file readBinary rejects ended with the error, and meshId is the first run's.
C18_Witness ==
    /\ handler = "none"
    /\ runs = 2
    /\ calls = <<"getPoint", "getElevationAt", "arrayBuffer", "glbToGeometryData">>
    /\ status = Status("error", "Invalid glTF.")
    /\ meshId = 1
    /\ handed = NoHanded

\* C20: when getPoint answers no point, the run makes no other call, leaves
\* elementPath, the cache, the ids and the proposal as they were, sets the
\* status to "Placement cancelled." and isBusy to false.
C20_CancelledPlacement ==
    [][ (hpc = "getPoint" /\ calls' = <<"getPoint", "no point">>) =>
            /\ handler' = "none"
            /\ status' = Status("info", "Placement cancelled.")
            /\ ~isBusy'
            /\ elementPath' = elementPath
            /\ cachedUpload' = cachedUpload
            /\ renderGlbId' = renderGlbId
            /\ meshId' = meshId
            /\ proposal' = proposal
            /\ decoded' = decoded
            /\ handed' = NoHanded ]_vars

\* C20 witness: after an element had been added, the second upload was
\* cancelled at point picking; the path and the cache are the first run's.
C20_Witness ==
    /\ handler = "none"
    /\ runs = 2
    /\ calls = <<"getPoint", "no point">>
    /\ status = Status("info", "Placement cancelled.")
    /\ ~isBusy
    /\ elementPath = 1
    /\ cachedUpload.geometryUrn.id = 1

\* ------------------------------------------------------------------------
\* Properties of transformGlb
\* ------------------------------------------------------------------------
\* The document the call was given and the document it returned, as readBinary
\* gives them.
In == ReadBinary(tin)
Out == ReadBinary(tresult)

IsNew(h) == h > Len(In.nodes)
HadRoots(s) == Len(In.scenes[s]) >= 1

\* C1: on a document with exactly one scene, of N >= 1 roots, the result has
\* exactly one root, a new node with translation (x, z, -y), scale (s, s, s)
\* and N children.
C1_OneSceneWrapped ==
    (tpc = "done" /\ Len(In.scenes) = 1 /\ HadRoots(1)) =>
        /\ Len(Out.scenes) = 1
        /\ Len(Out.scenes[1]) = 1
        /\ LET w == Out.scenes[1][1]
           IN  /\ IsNew(w)
               /\ w \in 1..Len(Out.nodes)
               /\ Out.nodes[w].translation = <<targs.x, targs.z, -targs.y>>
               /\ Out.nodes[w].scale = <<targs.scale, targs.scale, targs.scale>>
               /\ Len(Out.nodes[w].children) = Len(In.scenes[1])

\* C1 witness: placing a scene of two roots at (10, 5, 2) with scale 3 gave a
\* wrapper at (10, 2, -5) with scale (3, 3, 3).
C1_Witness ==
    /\ tpc = "done"
    /\ Len(In.scenes) = 1
    /\ Len(In.scenes[1]) = 2
    /\ targs = [x |-> 10, y |-> 5, z |-> 2, scale |-> 3]
    /\ Out.nodes[Out.scenes[1][1]].translation = <<10, 2, -5>>
    /\ Out.nodes[Out.scenes[1][1]].scale = <<3, 3, 3>>

\* C6: every node of the input document keeps its mesh, its translation,
\* rotation and scale and its own list of children, throughout the loop and in
\* the result.
SameNode(a, b) ==
    /\ a.mesh = b.mesh
    /\ a.translation = b.translation
    /\ a.rotation = b.rotation
    /\ a.scale = b.scale
    /\ a.children = b.children

C6_OnlyReparents ==
    /\ tpc = "loop" =>
          /\ Len(tdoc.nodes) >= Len(In.nodes)
          /\ \A h \in 1..Len(In.nodes) : SameNode(tdoc.nodes[h], In.nodes[h])
    /\ tpc = "done" =>
          /\ Len(Out.nodes) >= Len(In.nodes)
          /\ \A h \in 1..Len(In.nodes) : SameNode(Out.nodes[h], In.nodes[h])

\* C6 witness: a root with a mesh and a child of its own was moved under a
\* wrapper.
C6_Witness ==
    /\ tpc = "done"
    /\ \E h \in 1..Len(In.nodes) :
          /\ In.nodes[h].mesh # 0
          /\ In.nodes[h].children # <<>>
          /\ \E w \in 1..Len(Out.nodes) : IsNew(w) /\ Has(Out.nodes[w].children, h)

\* C7: a scene without roots has none afterwards, every node created is the
\* root of a scene that had roots, and a document without scenes comes back
\* as it was.
C7_EmptySceneUntouched ==
    tpc = "done" =>
        /\ Len(Out.scenes) = Len(In.scenes)
        /\ \A s \in 1..Len(In.scenes) : ~HadRoots(s) => Len(Out.scenes[s]) = 0
        /\ \A w \in 1..Len(Out.nodes) :
              IsNew(w) => \E s \in 1..Len(In.scenes) : HadRoots(s) /\ Has(Out.scenes[s], w)
        /\ Len(In.scenes) = 0 => tresult = tin

\* C7 witness: a document with an empty scene and a scene with roots was
\* transformed.
C7_Witness ==
    /\ tpc = "done"
    /\ Len(In.nodes) > 0
    /\ \E s, r \in 1..Len(In.scenes) : ~HadRoots(s) /\ HadRoots(r)

RECURSIVE InOrderOf(_, _)
InOrderOf(seq, of) ==
    IF seq = <<>> THEN TRUE
    ELSE IF of = <<>> THEN FALSE
    ELSE IF Head(seq) = Head(of) THEN InOrderOf(Tail(seq), Tail(of))
    ELSE InOrderOf(seq, Tail(of))

Contributes(p) == p.position.kind = "array"
SuppliesNormals(p) == p.normal.kind = "array"

\* The position (or normal) values a primitive is expected to contribute:
\* vertex indices[j] for each index j when it is indexed, its stored values otherwise.
ExpectedFrom(p, arr) ==
    IF p.indices.kind = "array"
    THEN [n \in 1..(3 * Len(p.indices.data)) |->
             arr[3 * p.indices.data[((n - 1) \div 3) + 1] + ((n - 1) % 3) + 1]]
    ELSE arr

ExpectedPositionsOf(p) ==
    IF Contributes(p) THEN ExpectedFrom(p, p.position.data) ELSE <<>>

ExpectedNormalsOf(p) ==
    IF Contributes(p) /\ SuppliesNormals(p) THEN ExpectedFrom(p, p.normal.data) ELSE <<>>

RECURSIVE ConcatPositions(_)
ConcatPositions(prims) ==
    IF prims = <<>> THEN <<>>
    ELSE ExpectedPositionsOf(Head(prims)) \o ConcatPositions(Tail(prims))

\* The primitives of a document in document order: meshes in declared order,
\* within a mesh its primitives in declared order.
RECURSIVE DocumentOrder(_)
DocumentOrder(meshes) ==
    IF meshes = <<>> THEN <<>> ELSE Head(meshes) \o DocumentOrder(Tail(meshes))

Segment(s, from, to) == SubSeq(s, from + 1, to)
LoggedPrim(e) == gdoc[e.mesh][e.prim]

\* C2: the result has no normal sequence, or one of the same length as the
\* position sequence.
C2_NormalsMatchPositions ==
    gpc = "done" =>
        \/ "normal" \notin DOMAIN gresult
        \/ Len(gresult.normal) = Len(gresult.position)

\* C4: an indexed primitive with k indices contributes exactly k position
\* triples, the j-th being the position of vertex indices[j], both in the
\* accumulator and in the returned position sequence.
C4_IndexedExpansion ==
    \A n \in 1..Len(glog) :
        LET e == glog[n]
            p == LoggedPrim(e)
            k == Len(p.indices.data)
        IN  (p.position.kind = "array" /\ p.indices.kind = "array") =>
                /\ e.posTo - e.posFrom = 3 * k
                /\ \A j \in 0..(k - 1), c \in 0..2 :
                      /\ allPositions[e.posFrom + 3 * j + c + 1]
                            = p.position.data[3 * p.indices.data[j + 1] + c + 1]
                      /\ gpc = "done" =>
                            gresult.position[e.posFrom + 3 * j + c + 1]
                                = p.position.data[3 * p.indices.data[j + 1] + c + 1]

\* C4 witness: six indices over four vertices have given six triples.
C4_Witness ==
    /\ gpc = "done"
    /\ \E n \in 1..Len(glog) :
          /\ LoggedPrim(glog[n]).position = Arr(Pos4)
          /\ LoggedPrim(glog[n]).indices = Arr(Quad)
          /\ glog[n].posTo - glog[n].posFrom = 18

\* C5: the returned position sequence is the concatenation of the primitives'
\* contributions in document order.
C5_ConcatenationInDocumentOrder ==
    gpc = "done" => gresult.position = ConcatPositions(DocumentOrder(gin))

\* C5 witness: two meshes, the first with two primitives, all three contributing
\* different values.
C5_Witness ==
    /\ gpc = "done"
    /\ Len(gin) = 2
    /\ Len(gin[1]) = 2
    /\ Len(gin[2]) = 1
    /\ \A e \in {gin[1][1], gin[1][2], gin[2][1]} : ExpectedPositionsOf(e) # <<>>
    /\ ExpectedPositionsOf(gin[1][1]) # ExpectedPositionsOf(gin[1][2])
    /\ ExpectedPositionsOf(gin[1][2]) # ExpectedPositionsOf(gin[2][1])

\* C9: a primitive without a position array contributes nothing to either
\* sequence, and every primitive visited after it contributes what it
\* contributes alone; the traversal visits every primitive and returns.
C9_SkippedPrimitiveContributesNothing ==
    /\ \A n \in 1..Len(glog) :
          LET e == glog[n]
              p == LoggedPrim(e)
          IN  /\ ~Contributes(p) => (e.posTo = e.posFrom /\ e.nrmTo = e.nrmFrom)
              /\ (\E m \in 1..(n - 1) : ~Contributes(LoggedPrim(glog[m]))) =>
                    /\ Segment(allPositions, e.posFrom, e.posTo) = ExpectedPositionsOf(p)
                    /\ Segment(allNormals, e.nrmFrom, e.nrmTo) = ExpectedNormalsOf(p)
    /\ gpc = "done" => Len(glog) = Len(DocumentOrder(gin))

\* C9 witness: a primitive with normals and no positions was visited, and a
\* later primitive contributed positions and normals.
C9_Witness ==
    /\ gpc = "done"
    /\ \E m, n \in 1..Len(glog) :
          /\ m < n
          /\ ~Contributes(LoggedPrim(glog[m]))
          /\ SuppliesNormals(LoggedPrim(glog[m]))
          /\ glog[n].posTo > glog[n].posFrom
          /\ glog[n].nrmTo > glog[n].nrmFrom

\* C10: the result carries a normal sequence only if some contributing
\* primitive has a NORMAL accessor; otherwise it has the position field only.
C10_NormalOnlyIfSupplied ==
    gpc = "done" =>
        LET prims == DocumentOrder(gin)
            supplied == \E n \in 1..Len(prims) :
                            Contributes(prims[n]) /\ prims[n].normal.kind # "none"
        IN  /\ "normal" \in DOMAIN gresult => supplied
            /\ ~supplied => DOMAIN gresult = {"position"}

\* C10 witness: primitives contributed positions, none of them with normals,
\* while a skipped primitive of the document had normals.
C10_Witness ==
    /\ gpc = "done"
    /\ Len(gresult.position) > 0
    /\ DOMAIN gresult = {"position"}
    /\ \E n \in 1..Len(glog) :
          ~Contributes(LoggedPrim(glog[n])) /\ SuppliesNormals(LoggedPrim(glog[n]))

\* C11: a primitive with a position array and no indices contributes its
\* stored position values, and its stored normal values when it has them,
\* element for element in stored order, to the accumulators and to the
\* returned sequences.
C11_NonIndexedStoredOrder ==
    \A n \in 1..Len(glog) :
        LET e == glog[n]
            p == LoggedPrim(e)
            stored == IF p.normal.kind = "array" THEN p.normal.data ELSE <<>>
        IN  (p.position.kind = "array" /\ p.indices.kind = "none") =>
                /\ Segment(allPositions, e.posFrom, e.posTo) = p.position.data
                /\ Segment(allNormals, e.nrmFrom, e.nrmTo) = stored
                /\ gpc = "done" =>
                      /\ Segment(gresult.position, e.posFrom, e.posTo) = p.position.data
                      /\ stored # <<>> =>
                            Segment(gresult.normal, e.nrmFrom, e.nrmTo) = stored

\* C11 witness: after another primitive had contributed, a primitive without
\* indices contributed its nine stored positions and its nine stored normals.
C11_Witness ==
    /\ gpc = "done"
    /\ \E n \in 1..Len(glog) :
          /\ LoggedPrim(glog[n]) = Prim(Arr(Pos3), Arr(Nrm3), NoAccessor)
          /\ glog[n].posFrom > 0
          /\ Segment(gresult.position, glog[n].posFrom, glog[n].posTo) = Pos3
          /\ Segment(gresult.normal, glog[n].nrmFrom, glog[n].nrmTo) = Nrm3

\* ------------------------------------------------------------------------
\* Properties of the interleaved invocations
\* ------------------------------------------------------------------------
\* What transformGlb returns when nothing else runs.
transformGlbAlone(b, a) == WriteBinary(Scenes(ReadBinary(b), 1, a))

\* What glbToGeometryData returns when nothing else runs.
glbToGeometryDataAlone(b) ==
    LET acc == Meshes(b.meshes, 1, [positions |-> <<>>, normals |-> <<>>])
    IN  GeometryData(acc.positions, acc.normals)

\* C19: whatever ran while it waited, an invocation that has returned has
\* returned what the function returns on its arguments when run alone.
C19_InterleavedAsAlone ==
    \A i \in 1..MaxInvocations :
        invocations[i].pc = "done" =>
            /\ invocations[i].fn = "transformGlb" =>
                   invocations[i].glb =
                       transformGlbAlone(invocations[i].glbBuffer, invocations[i].args)
            /\ invocations[i].fn = "glbToGeometryData" =>
                   invocations[i].geometryData =
                       glbToGeometryDataAlone(invocations[i].glbBuffer)

\* C19 witness: a transformGlb and a glbToGeometryData on different GLBs have
\* both returned, each after the other ran while it waited.
C19_Witness ==
    \E i, j \in 1..MaxInvocations :
        /\ invocations[i].fn = "transformGlb"
        /\ invocations[j].fn = "glbToGeometryData"
        /\ invocations[i].pc = "done"
        /\ invocations[j].pc = "done"
        /\ invocations[i].interleaved
        /\ invocations[j].interleaved
        /\ invocations[i].glbBuffer # invocations[j].glbBuffer
        /\ Len(invocations[i].glb.nodes) > Len(invocations[i].glbBuffer.nodes)
        /\ Len(invocations[j].geometryData.position) > 0

====
